---- MODULE Spec2Model ----
(***************************************************************************)
(* The signaling coordinator of src/src/server/trpc/router/index.ts: the   *)
(* in-memory room registry `rooms` and the eight tRPC procedures of        *)
(* roomRouter.  Every procedure body is synchronous, so one call is one    *)
(* atomic step.  The pages that call it (src/unnamed/part_000, with the    *)
(* WebRTCManager of src/src/utils/webrtc.ts) follow the coordinator.       *)
(*                                                                         *)
(* JavaScript values are written as follows.                               *)
(*   - `rooms` (a Map) is a function whose DOMAIN is the set of its keys.  *)
(*   - `room.participants` (an object literal whose keys are enumerated by *)
(*     Object.keys / Object.entries) is the sequence of its own entries    *)
(*     <<key, value>> in insertion order.                                  *)
(*   - `offers`, `answers`, `iceCandidates` (object literals that are only *)
(*     ever indexed) are functions whose DOMAIN is the set of own keys.    *)
(*   - A property read obj[key] on an object literal that has no own       *)
(*     property `key` yields what Object.prototype provides for ProtoKeys  *)
(*     and undefined for every other key.                                  *)
(***************************************************************************)
EXTENDS Naturals, Sequences, FiniteSets, TLC

\* Room ids that uuidv4() may return, and that callers may pass.
RoomIds == {"r1", "r2"}

\* Peer ids callers pass (z.string()): two ordinary ids and one id that is
\* also the name of a property of Object.prototype.
PeerIds == {"A", "B", "constructor"}

\* Names that every object literal inherits from Object.prototype.
ProtoKeys == {"constructor"}

\* Payload strings callers pass (z.string()): the empty string is one.
Payloads == {"", "x"}

\* {}.constructor, the function Object: what obj["constructor"] yields when
\* obj has no own property of that name.  It is truthy and its length is 1.
ObjectCtor == "[Function: Object]"

\* Successful sends in one behaviour of Spec.
MaxSends == 2

\* Successful sends in one behaviour of SpecRooms.
MaxRoomSends == 1

\* Successful sends in one behaviour of SpecCandidates.
MaxCandidates == 3

VARIABLES
    rooms,      \* const rooms = new Map<string, Room>()
    fresh,      \* the ids uuidv4() has not returned yet
    budget,     \* how many more sends may return { success: true }
    unread,     \* history: <<room, from, to>> -> the candidates `from` has sent to
                \* `to` since the last getIceCandidates(room, to), in order
    clients     \* peerId -> the RoomPage component rendered with that peerId
                \* and its WebRTCManager

vars == <<rooms, fresh, budget, unread, clients>>

----------------------------------------------------------------------------
(* Object literals *)

ObjectKeys(obj) == [i \in 1..Len(obj) |-> obj[i][1]]

KeySet(obj) == {obj[i][1] : i \in 1..Len(obj)}

HasOwn(obj, key) == \E i \in 1..Len(obj) : obj[i][1] = key

GetOwn(obj, key) == obj[CHOOSE i \in 1..Len(obj) : obj[i][1] = key][2]

\* obj[key] = val
SetProp(obj, key, val) ==
    IF HasOwn(obj, key)
    THEN [i \in 1..Len(obj) |-> IF obj[i][1] = key THEN <<key, val>> ELSE obj[i]]
    ELSE Append(obj, <<key, val>>)

\* Truthiness of participants[key]: an own mailbox, or an inherited function.
ParticipantTruthy(participants, key) ==
    HasOwn(participants, key) \/ key \in ProtoKeys

\* Truthiness of data.offers[key] / data.answers[key]: a non-empty own string,
\* or an inherited function.
PayloadTruthy(slots, key) ==
    IF key \in DOMAIN slots THEN slots[key] # "" ELSE key \in ProtoKeys

\* The value of data.offers[key] / data.answers[key] when it is truthy.
PayloadValue(slots, key) ==
    IF key \in DOMAIN slots THEN slots[key] ELSE ObjectCtor

\* data.iceCandidates[key] && data.iceCandidates[key].length > 0
QueueNonEmpty(queues, key) ==
    IF key \in DOMAIN queues THEN Len(queues[key]) > 0 ELSE key \in ProtoKeys

\* The value of data.iceCandidates[key] when the test above passes.  The
\* inherited function is no array; it is written as a one-element tuple so
\* that it differs from every array of payloads.
QueueValue(queues, key) ==
    IF key \in DOMAIN queues THEN queues[key] ELSE <<ObjectCtor>>

EmptyMailbox == [offers |-> <<>>, answers |-> <<>>, iceCandidates |-> <<>>]

----------------------------------------------------------------------------
(* Procedure bodies: registry and input to registry, exception and result *)

Throw(rs, e) == [rooms |-> rs, threw |-> e, output |-> <<>>]

Return(rs, out) == [rooms |-> rs, threw |-> "none", output |-> out]

\* createRoom registering the room in a new Map instead of in `rooms`.
createRoom_Clear(rs, roomId) ==
    Return(roomId :> [id |-> roomId, participants |-> <<>>],
           [roomId |-> roomId])

createRoom(rs, roomId) ==
    Return(roomId :> [id |-> roomId, participants |-> <<>>] @@ rs,
           [roomId |-> roomId])

\* joinRoom returning Object.keys(room.participants) unfiltered.
joinRoom_NoFilter(rs, input) ==
    IF input.roomId \notin DOMAIN rs THEN Throw(rs, "RoomNotFound")
    ELSE
      LET room == rs[input.roomId]
          participants ==
              IF ~ParticipantTruthy(room.participants, input.peerId)
              THEN SetProp(room.participants, input.peerId, EmptyMailbox)
              ELSE room.participants
      IN  Return([rs EXCEPT ![input.roomId].participants = participants],
                 [peers |-> ObjectKeys(participants)])

\* joinRoom assigning a new mailbox without testing for an existing one.
joinRoom_Reset(rs, input) ==
    IF input.roomId \notin DOMAIN rs THEN Throw(rs, "RoomNotFound")
    ELSE
      LET room == rs[input.roomId]
          participants == SetProp(room.participants, input.peerId, EmptyMailbox)
          otherPeers ==
              SelectSeq(ObjectKeys(participants), LAMBDA id : id # input.peerId)
      IN  Return([rs EXCEPT ![input.roomId].participants = participants],
                 [peers |-> otherPeers])

\* joinRoom registering the room when the id is unknown, instead of throwing.
joinRoom_AutoCreate(rs, input) ==
    LET known == IF input.roomId \in DOMAIN rs THEN rs
                 ELSE input.roomId :> [id |-> input.roomId, participants |-> <<>>] @@ rs
        room == known[input.roomId]
        participants ==
            IF ~ParticipantTruthy(room.participants, input.peerId)
            THEN SetProp(room.participants, input.peerId, EmptyMailbox)
            ELSE room.participants
        otherPeers ==
            SelectSeq(ObjectKeys(participants), LAMBDA id : id # input.peerId)
    IN  Return([known EXCEPT ![input.roomId].participants = participants],
               [peers |-> otherPeers])

\* joinRoom assigning room.participants = { [peerId]: mailbox } for a new peer,
\* instead of adding the key to the object.
joinRoom_Replace(rs, input) ==
    IF input.roomId \notin DOMAIN rs THEN Throw(rs, "RoomNotFound")
    ELSE
      LET room == rs[input.roomId]
          participants ==
              IF ~ParticipantTruthy(room.participants, input.peerId)
              THEN <<<<input.peerId, EmptyMailbox>>>>
              ELSE room.participants
          otherPeers ==
              SelectSeq(ObjectKeys(participants), LAMBDA id : id # input.peerId)
      IN  Return([rs EXCEPT ![input.roomId].participants = participants],
                 [peers |-> otherPeers])

joinRoom(rs, input) ==
    IF input.roomId \notin DOMAIN rs THEN Throw(rs, "RoomNotFound")
    ELSE
      LET room == rs[input.roomId]
          participants ==
              IF ~ParticipantTruthy(room.participants, input.peerId)
              THEN SetProp(room.participants, input.peerId, EmptyMailbox)
              ELSE room.participants
          otherPeers ==
              SelectSeq(ObjectKeys(participants), LAMBDA id : id # input.peerId)
      IN  Return([rs EXCEPT ![input.roomId].participants = participants],
                 [peers |-> otherPeers])

\* StoreSlot that also records the payload in the receiver's mailbox, under the
\* sender's id, when the receiver has one.
StoreSlot_Receiver(rs, input, slot, payload) ==
    IF input.roomId \notin DOMAIN rs THEN Throw(rs, "RoomNotFound")
    ELSE
      LET room == rs[input.roomId] IN
      IF ~ParticipantTruthy(room.participants, input.fromPeerId)
      THEN Throw(rs, "PeerNotFound")
      ELSE IF ~HasOwn(room.participants, input.fromPeerId)
      THEN Throw(rs, "TypeError")
      ELSE
        LET data == GetOwn(room.participants, input.fromPeerId)
            stored == [data EXCEPT ![slot] = (input.toPeerId :> payload) @@ @]
            own == SetProp(room.participants, input.fromPeerId, stored)
            both == IF HasOwn(own, input.toPeerId)
                    THEN SetProp(own, input.toPeerId,
                             [GetOwn(own, input.toPeerId) EXCEPT ![slot] =
                                 (input.fromPeerId :> payload) @@ @])
                    ELSE own
        IN  Return([rs EXCEPT ![input.roomId].participants = both],
                   [success |-> TRUE])

\* The body shared by sendOffer and sendAnswer; slot is "offers" or "answers".
StoreSlot(rs, input, slot, payload) ==
    IF input.roomId \notin DOMAIN rs THEN Throw(rs, "RoomNotFound")
    ELSE
      LET room == rs[input.roomId] IN
      IF ~ParticipantTruthy(room.participants, input.fromPeerId)
      THEN Throw(rs, "PeerNotFound")
      ELSE IF ~HasOwn(room.participants, input.fromPeerId)
      \* participants[fromPeerId] is the inherited function: its .offers is
      \* undefined, and assigning a property of undefined throws.
      THEN Throw(rs, "TypeError")
      ELSE
        LET data == GetOwn(room.participants, input.fromPeerId)
            stored == [data EXCEPT ![slot] = (input.toPeerId :> payload) @@ @]
        IN  Return([rs EXCEPT ![input.roomId].participants =
                        SetProp(room.participants, input.fromPeerId, stored)],
                   [success |-> TRUE])

\* sendOffer storing the offer in every room where fromPeerId has a mailbox.
sendOffer_AllRooms(rs, input) ==
    IF input.roomId \notin DOMAIN rs THEN Throw(rs, "RoomNotFound")
    ELSE IF ~ParticipantTruthy(rs[input.roomId].participants, input.fromPeerId)
    THEN Throw(rs, "PeerNotFound")
    ELSE IF ~HasOwn(rs[input.roomId].participants, input.fromPeerId)
    THEN Throw(rs, "TypeError")
    ELSE Return([id \in DOMAIN rs |->
                    IF HasOwn(rs[id].participants, input.fromPeerId)
                    THEN [rs[id] EXCEPT !.participants =
                            SetProp(@, input.fromPeerId,
                                [GetOwn(@, input.fromPeerId) EXCEPT !.offers =
                                    (input.toPeerId :> input.offer) @@ @])]
                    ELSE rs[id]],
                [success |-> TRUE])

sendOffer(rs, input) == StoreSlot(rs, input, "offers", input.offer)

sendAnswer(rs, input) == StoreSlot(rs, input, "answers", input.answer)

sendIceCandidate(rs, input) ==
    IF input.roomId \notin DOMAIN rs THEN Throw(rs, "RoomNotFound")
    ELSE
      LET room == rs[input.roomId] IN
      IF ~ParticipantTruthy(room.participants, input.fromPeerId)
      THEN Throw(rs, "PeerNotFound")
      ELSE IF ~HasOwn(room.participants, input.fromPeerId)
      THEN Throw(rs, "TypeError")
      ELSE
        LET data == GetOwn(room.participants, input.fromPeerId)
            queues == data.iceCandidates
        IN
        IF input.toPeerId \notin DOMAIN queues /\ input.toPeerId \in ProtoKeys
        \* iceCandidates[toPeerId] is the inherited function: it is truthy, so
        \* no array is created, and it has no push.
        THEN Throw(rs, "TypeError")
        ELSE
          LET queue == IF input.toPeerId \in DOMAIN queues
                       THEN queues[input.toPeerId] ELSE <<>>
              stored == [data EXCEPT !.iceCandidates =
                            (input.toPeerId :> Append(queue, input.candidate)) @@ @]
          IN  Return([rs EXCEPT ![input.roomId].participants =
                          SetProp(room.participants, input.fromPeerId, stored)],
                     [success |-> TRUE])

\* The scan shared by getOffers and getAnswers; slot is "offers" or "answers".
\* The entries <<fromPeerId, data[slot][peerId]>> that pass the test, in the
\* order of Object.entries.
CollectSlot(rs, input, slot) ==
    LET entries == SelectSeq(rs[input.roomId].participants,
                      LAMBDA e : e[1] # input.peerId
                                 /\ PayloadTruthy(e[2][slot], input.peerId))
    IN  [i \in 1..Len(entries) |->
            <<entries[i][1], PayloadValue(entries[i][2][slot], input.peerId)>>]

getOffers(rs, input) ==
    IF input.roomId \notin DOMAIN rs THEN Throw(rs, "RoomNotFound")
    ELSE
      LET found == CollectSlot(rs, input, "offers")
          offers == [i \in 1..Len(found) |->
                        [fromPeerId |-> found[i][1], offer |-> found[i][2]]]
      IN  Return(rs, [offers |-> offers])

getAnswers(rs, input) ==
    IF input.roomId \notin DOMAIN rs THEN Throw(rs, "RoomNotFound")
    ELSE
      LET found == CollectSlot(rs, input, "answers")
          answers == [i \in 1..Len(found) |->
                         [fromPeerId |-> found[i][1], answer |-> found[i][2]]]
      IN  Return(rs, [answers |-> answers])

\* getIceCandidates without the assignment that clears the queue.
getIceCandidates_NoClear(rs, input) ==
    IF input.roomId \notin DOMAIN rs THEN Throw(rs, "RoomNotFound")
    ELSE
      LET entries == SelectSeq(rs[input.roomId].participants,
                        LAMBDA e : e[1] # input.peerId
                                   /\ QueueNonEmpty(e[2].iceCandidates, input.peerId))
      IN  Return(rs,
                 [iceCandidates |->
                     [i \in 1..Len(entries) |->
                         [fromPeerId |-> entries[i][1],
                          candidates |-> QueueValue(entries[i][2].iceCandidates,
                                                    input.peerId)]]])

\* getIceCandidates clearing every queue of a sender it returns a batch from.
getIceCandidates_ClearAll(rs, input) ==
    IF input.roomId \notin DOMAIN rs THEN Throw(rs, "RoomNotFound")
    ELSE
      LET participants == rs[input.roomId].participants
          Hit(e) == e[1] # input.peerId
                    /\ QueueNonEmpty(e[2].iceCandidates, input.peerId)
          entries == SelectSeq(participants, Hit)
          cleared ==
              [i \in 1..Len(participants) |->
                  IF Hit(participants[i])
                  THEN <<participants[i][1],
                         [participants[i][2] EXCEPT !.iceCandidates =
                             [t \in DOMAIN @ \cup {input.peerId} |-> <<>>]]>>
                  ELSE participants[i]]
      IN  Return([rs EXCEPT ![input.roomId].participants = cleared],
                 [iceCandidates |->
                     [i \in 1..Len(entries) |->
                         [fromPeerId |-> entries[i][1],
                          candidates |-> QueueValue(entries[i][2].iceCandidates,
                                                    input.peerId)]]])

getIceCandidates(rs, input) ==
    IF input.roomId \notin DOMAIN rs THEN Throw(rs, "RoomNotFound")
    ELSE
      LET participants == rs[input.roomId].participants
          Hit(e) == e[1] # input.peerId
                    /\ QueueNonEmpty(e[2].iceCandidates, input.peerId)
          entries == SelectSeq(participants, Hit)
          iceCandidates ==
              [i \in 1..Len(entries) |->
                  [fromPeerId |-> entries[i][1],
                   candidates |-> QueueValue(entries[i][2].iceCandidates,
                                             input.peerId)]]
          \* Clear the candidates after they've been retrieved
          cleared ==
              [i \in 1..Len(participants) |->
                  IF Hit(participants[i])
                  THEN <<participants[i][1],
                         [participants[i][2] EXCEPT !.iceCandidates =
                             (input.peerId :> <<>>) @@ @]>>
                  ELSE participants[i]]
      IN  Return([rs EXCEPT ![input.roomId].participants = cleared],
                 [iceCandidates |-> iceCandidates])

----------------------------------------------------------------------------
(* The input objects of the procedures (their zod schemas) *)

JoinInput(roomId, peerId) == [roomId |-> roomId, peerId |-> peerId]

OfferInput(roomId, from, to, offer) ==
    [roomId |-> roomId, fromPeerId |-> from, toPeerId |-> to, offer |-> offer]

AnswerInput(roomId, from, to, answer) ==
    [roomId |-> roomId, fromPeerId |-> from, toPeerId |-> to, answer |-> answer]

CandidateInput(roomId, from, to, candidate) ==
    [roomId |-> roomId, fromPeerId |-> from, toPeerId |-> to, candidate |-> candidate]

----------------------------------------------------------------------------
(* The client: the RoomPage component of src/unnamed/part_000 and the       *)
(* WebRTCManager of src/src/utils/webrtc.ts.  A session description or a    *)
(* candidate is an opaque non-empty JSON string.  One await of initWebRTC   *)
(* is one step; a poll is one step, from the query's fetch to the end of    *)
(* the effect that its new data starts.                                     *)

\* The peer ids of the pages (useState(() => uuidv4())).
ClientIds == {"A", "B", "C"}

\* params.roomId of the pages.
PageRoom == "r1"

\* JSON.stringify of an offer, an answer or a candidate.
Json == "x"

\* Candidates one RTCPeerConnection gathers after setLocalDescription.
MaxIce == 1

\* How often a remote description is counted on one connection.
MaxApplied == 2

\* Calls into the transport that throw in one behaviour of SpecClients.
MaxFailures == 1

\* The page before it is rendered.  pc is the position of initWebRTC: "idle"
\* (not rendered), "media" (awaiting initLocalStream), "joining" (awaiting
\* joinRoom), "joined", and "denied" or "failed" (the catch block, after
\* initLocalStream or joinRoom threw).  offersData and answersData are the queries' data, <<>> while
\* undefined.  dropped: the senders of candidates that were thrown away for
\* want of a connection.
NewClient ==
    [pc |-> "idle", mounted |-> FALSE,
     localStream |-> FALSE, listener |-> FALSE,
     peerConnections |-> <<>>, roster |-> {}, pending |-> {},
     offersData |-> <<>>, answersData |-> <<>>, dropped |-> {}]

\* new RTCPeerConnection(rtcConfig).  offered: createOffer was called on it;
\* local: it has a local description; offers, answers: how often a remote
\* offer, a remote answer was applied; ice: gathered candidates not yet
\* dispatched; added: remote candidates added.
NewConnection ==
    [offered |-> FALSE, local |-> FALSE, offers |-> 0, answers |-> 0,
     ice |-> 0, added |-> 0]

Counted(n) == IF n < MaxApplied THEN n + 1 ELSE n

createPeerConnection(peerConnections, remotePeerId) ==
    IF remotePeerId \in DOMAIN peerConnections THEN peerConnections
    ELSE (remotePeerId :> NewConnection) @@ peerConnections

\* The first local description starts the gathering of candidates.
setLocalDescription(connection) ==
    IF connection.local THEN connection
    ELSE [connection EXCEPT !.local = TRUE, !.ice = MaxIce]

\* What a call to the coordinator leaves of the registry: a throw is caught.
Called(r) == r.rooms

\* initWebRTC from the call of joinRoom to its end: the listener, and the
\* synchronous part of createOffer for each peer of the roster.
RECURSIVE OfferEach(_, _)
OfferEach(peerConnections, peers) ==
    IF peers = <<>> THEN peerConnections
    ELSE OfferEach([createPeerConnection(peerConnections, Head(peers))
                       EXCEPT ![Head(peers)].offered = TRUE],
                   Tail(peers))

\* The same, calling createOffer for every other page.
initWebRTC_OfferAll(self, client, rs) ==
    LET result == joinRoom(rs, [roomId |-> PageRoom, peerId |-> self]) IN
    IF result.threw # "none"
    THEN [client |-> [client EXCEPT !.pc = "failed"],
          rooms |-> rs]
    ELSE [client |-> [client EXCEPT
                         !.pc = "joined",
                         !.listener = TRUE,
                         !.roster = {result.output.peers[i] :
                                        i \in 1..Len(result.output.peers)},
                         !.pending = ClientIds \ {self},
                         !.peerConnections =
                             [p \in DOMAIN @ \cup (ClientIds \ {self}) |->
                                 [createPeerConnection(@, p)[p]
                                     EXCEPT !.offered = TRUE]]],
          rooms |-> result.rooms]

initWebRTC(self, client, rs) ==
    LET result == joinRoom(rs, [roomId |-> PageRoom, peerId |-> self]) IN
    IF result.threw # "none"
    THEN [client |-> [client EXCEPT !.pc = "failed"],
          rooms |-> rs]
    ELSE [client |-> [client EXCEPT
                         !.pc = "joined",
                         !.listener = TRUE,
                         !.roster = {result.output.peers[i] :
                                        i \in 1..Len(result.output.peers)},
                         !.pending = {result.output.peers[i] :
                                        i \in 1..Len(result.output.peers)},
                         !.peerConnections = OfferEach(@, result.output.peers)],
          rooms |-> result.rooms]

\* createOffer without the call of sendOfferMutation: the offer stays local.
createOffer_NoSend(self, client, rs, remotePeerId, fails) ==
    IF fails
    THEN [client |-> [client EXCEPT !.pending = @ \ {remotePeerId}], rooms |-> rs]
    ELSE [client |-> [client EXCEPT
                         !.pending = @ \ {remotePeerId},
                         !.peerConnections[remotePeerId] = setLocalDescription(@)],
          rooms |-> rs]

\* createOffer from manager.createOffer's first await to its end.
createOffer(self, client, rs, remotePeerId, fails) ==
    IF fails
    THEN [client |-> [client EXCEPT !.pending = @ \ {remotePeerId}], rooms |-> rs]
    ELSE [client |-> [client EXCEPT
                         !.pending = @ \ {remotePeerId},
                         !.peerConnections[remotePeerId] = setLocalDescription(@)],
          rooms |-> Called(sendOffer(rs,
                        [roomId |-> PageRoom, fromPeerId |-> self,
                         toPeerId |-> remotePeerId, offer |-> Json]))]

\* handleOffers with the try around the loop: the first throw ends the loop.
RECURSIVE handleOffers_Abort(_, _, _, _, _)
handleOffers_Abort(self, client, rs, offers, failing) ==
    IF offers = <<>> THEN [client |-> client, rooms |-> rs]
    ELSE
      LET from == Head(offers).fromPeerId
          created == createPeerConnection(client.peerConnections, from)
      IN
      IF from \in failing
      THEN [client |-> [client EXCEPT !.peerConnections = created], rooms |-> rs]
      ELSE handleOffers_Abort(self,
               [client EXCEPT !.peerConnections =
                   [created EXCEPT ![from] =
                       setLocalDescription([@ EXCEPT !.offers = Counted(@)])]],
               Called(sendAnswer(rs,
                   [roomId |-> PageRoom, fromPeerId |-> self,
                    toPeerId |-> from, answer |-> Json])),
               Tail(offers), failing)

\* The handleOffers effect on data `offers`; handleOffer throws for the senders
\* in `failing`.
RECURSIVE handleOffers(_, _, _, _, _)
handleOffers(self, client, rs, offers, failing) ==
    IF offers = <<>> THEN [client |-> client, rooms |-> rs]
    ELSE
      LET from == Head(offers).fromPeerId
          created == createPeerConnection(client.peerConnections, from)
      IN
      IF from \in failing
      THEN handleOffers(self, [client EXCEPT !.peerConnections = created], rs,
                        Tail(offers), failing)
      ELSE handleOffers(self,
               [client EXCEPT !.peerConnections =
                   [created EXCEPT ![from] =
                       setLocalDescription([@ EXCEPT !.offers = Counted(@)])]],
               Called(sendAnswer(rs,
                   [roomId |-> PageRoom, fromPeerId |-> self,
                    toPeerId |-> from, answer |-> Json])),
               Tail(offers), failing)

\* The handleAnswers effect; handleAnswer throws when there is no connection
\* for the sender, and for the senders in `failing`.
RECURSIVE handleAnswers(_, _, _)
handleAnswers(client, answers, failing) ==
    IF answers = <<>> THEN client
    ELSE
      LET from == Head(answers).fromPeerId IN
      IF from \notin DOMAIN client.peerConnections \/ from \in failing
      THEN handleAnswers(client, Tail(answers), failing)
      ELSE handleAnswers(
               [client EXCEPT !.peerConnections[from].answers = Counted(@)],
               Tail(answers), failing)

\* The handleIceCandidates effect; handleRemoteIceCandidate throws when there
\* is no connection for the sender, and for the senders in `failing`.
RECURSIVE handleIceCandidates(_, _, _)
handleIceCandidates(client, iceCandidates, failing) ==
    IF iceCandidates = <<>> THEN client
    ELSE
      LET from == Head(iceCandidates).fromPeerId
          candidates == Head(iceCandidates).candidates
      IN
      IF from \notin DOMAIN client.peerConnections
      THEN handleIceCandidates([client EXCEPT !.dropped = @ \cup {from}],
                               Tail(iceCandidates), failing)
      ELSE IF from \in failing
      THEN handleIceCandidates(client, Tail(iceCandidates), failing)
      ELSE handleIceCandidates(
               [client EXCEPT !.peerConnections[from].added = @ + Len(candidates)],
               Tail(iceCandidates), failing)

\* The function initWebRTC resolves to: removeEventListener and
\* manager.closeAllConnections().
cleanup(client) ==
    [client EXCEPT !.listener = FALSE, !.peerConnections = <<>>,
                   !.localStream = FALSE]

\* What the effect hands to React as its cleanup: the effect calls
\* initWebRTC() and returns nothing, so the function above stays inside the
\* promise.
EffectReturnsCleanup == FALSE

----------------------------------------------------------------------------
(* The history kept beside the registry: a function defined on the keys     *)
(* that have a non-empty history                                            *)

Hist(h, key) == IF key \in DOMAIN h THEN h[key] ELSE <<>>

\* What a send does to the budget and, for a candidate, to the history.
Sent(input, candidates, r) ==
    LET key == <<input.roomId, input.fromPeerId, input.toPeerId>> IN
    IF r.threw = "none"
    THEN /\ budget > 0
         /\ budget' = budget - 1
         /\ unread' = IF candidates = <<>> THEN unread
                      ELSE (key :> (Hist(unread, key) \o candidates)) @@ unread
    ELSE UNCHANGED <<budget, unread>>

\* What a getIceCandidates does to the history.
Drained(input, r) ==
    /\ unread' =
          IF r.threw = "none"
          THEN [k \in {j \in DOMAIN unread :
                          ~(j[1] = input.roomId /\ j[3] = input.peerId)} |-> unread[k]]
          ELSE unread
    /\ UNCHANGED budget

----------------------------------------------------------------------------
(* The state after the module is loaded, and one action per procedure *)

\* No room yet; the pages in `pages` are not rendered yet.
InitPages(ids, sends, pages) ==
    /\ rooms = <<>>
    /\ fresh = ids
    /\ budget = sends
    /\ unread = <<>>
    /\ clients = [c \in pages |-> NewClient]

\* The coordinator alone: no page is open.
InitWith(ids, sends) == InitPages(ids, sends, {})

CreateRoom ==
    \E roomId \in fresh :
        LET r == createRoom(rooms, roomId) IN
        /\ rooms' = r.rooms
        /\ fresh' = fresh \ {roomId}
        /\ UNCHANGED <<budget, unread, clients>>

JoinRoom ==
    \E roomId \in RoomIds, peerId \in PeerIds :
        LET input == JoinInput(roomId, peerId)
            r == joinRoom(rooms, input)
        IN
        /\ rooms' = r.rooms
        /\ UNCHANGED <<fresh, budget, unread, clients>>

SendOffer ==
    \E roomId \in RoomIds, fromPeerId \in PeerIds, toPeerId \in PeerIds,
       offer \in Payloads :
        LET input == OfferInput(roomId, fromPeerId, toPeerId, offer)
            r == sendOffer(rooms, input)
        IN
        /\ rooms' = r.rooms
        /\ Sent(input, <<>>, r)
        /\ UNCHANGED <<fresh, clients>>

SendAnswer ==
    \E roomId \in RoomIds, fromPeerId \in PeerIds, toPeerId \in PeerIds,
       answer \in Payloads :
        LET input == AnswerInput(roomId, fromPeerId, toPeerId, answer)
            r == sendAnswer(rooms, input)
        IN
        /\ rooms' = r.rooms
        /\ Sent(input, <<>>, r)
        /\ UNCHANGED <<fresh, clients>>

SendIceCandidate ==
    \E roomId \in RoomIds, fromPeerId \in PeerIds, toPeerId \in PeerIds,
       candidate \in Payloads :
        LET input == CandidateInput(roomId, fromPeerId, toPeerId, candidate)
            r == sendIceCandidate(rooms, input)
        IN
        /\ rooms' = r.rooms
        /\ Sent(input, <<candidate>>, r)
        /\ UNCHANGED <<fresh, clients>>

GetOffers ==
    \E roomId \in RoomIds, peerId \in PeerIds :
        LET input == JoinInput(roomId, peerId)
            r == getOffers(rooms, input)
        IN
        /\ rooms' = r.rooms
        /\ UNCHANGED <<fresh, budget, unread, clients>>

GetAnswers ==
    \E roomId \in RoomIds, peerId \in PeerIds :
        LET input == JoinInput(roomId, peerId)
            r == getAnswers(rooms, input)
        IN
        /\ rooms' = r.rooms
        /\ UNCHANGED <<fresh, budget, unread, clients>>

GetIceCandidates ==
    \E roomId \in RoomIds, peerId \in PeerIds :
        LET input == JoinInput(roomId, peerId)
            r == getIceCandidates(rooms, input)
        IN
        /\ rooms' = r.rooms
        /\ Drained(input, r)
        /\ UNCHANGED <<fresh, clients>>

Next ==
    \/ CreateRoom
    \/ JoinRoom
    \/ SendOffer
    \/ SendAnswer
    \/ SendIceCandidate
    \/ GetOffers
    \/ GetAnswers
    \/ GetIceCandidates

\* One room is created; the other id stays unknown to the registry.
Init == InitWith({"r1"}, MaxSends)

Spec == Init /\ [][Next]_vars

\* Both rooms can be created.
InitRooms == InitWith(RoomIds, MaxRoomSends)

SpecRooms == InitRooms /\ [][Next]_vars

\* The candidate queues alone: the procedures that read or write iceCandidates.
InitCandidates == InitWith({"r1"}, MaxCandidates)

NextCandidates ==
    \/ CreateRoom
    \/ JoinRoom
    \/ SendIceCandidate
    \/ GetIceCandidates

SpecCandidates == InitCandidates /\ [][NextCandidates]_vars

----------------------------------------------------------------------------
(* The pages: one action per step of RoomPage *)

\* The senders whose handling may throw in this step: none, or one while the
\* budget lasts.
Failing(senders) ==
    {{}} \cup (IF budget > 0 THEN {{from} : from \in senders} ELSE {})

Senders(entries) == {entries[i].fromPeerId : i \in 1..Len(entries)}

\* The three queries refetch every second while the page is rendered.
Polling(c) == clients[c].mounted

\* The page is rendered: new WebRTCManager(), the queries start polling and
\* initWebRTC awaits initLocalStream.
Mount(c) ==
    /\ clients[c].pc = "idle"
    /\ clients' = [clients EXCEPT ![c].pc = "media", ![c].mounted = TRUE]
    /\ UNCHANGED <<rooms, fresh, budget, unread>>

\* getUserMedia resolves.
MediaGranted(c) ==
    /\ clients[c].pc = "media"
    /\ clients' = [clients EXCEPT ![c].pc = "joining", ![c].localStream = TRUE]
    /\ UNCHANGED <<rooms, fresh, budget, unread>>

\* getUserMedia rejects: initLocalStream rethrows and initWebRTC catches.
MediaDenied(c) ==
    /\ clients[c].pc = "media"
    /\ clients' = [clients EXCEPT ![c].pc = "denied"]
    /\ UNCHANGED <<rooms, fresh, budget, unread>>

Join(c) ==
    /\ clients[c].pc = "joining"
    /\ LET r == initWebRTC(c, clients[c], rooms) IN
       /\ clients' = [clients EXCEPT ![c] = r.client]
       /\ rooms' = r.rooms
    /\ UNCHANGED <<fresh, budget, unread>>

OfferCreated(c) ==
    \E remotePeerId \in clients[c].pending, fails \in BOOLEAN :
        /\ fails => budget > 0
        /\ LET r == createOffer(c, clients[c], rooms, remotePeerId, fails) IN
           /\ clients' = [clients EXCEPT ![c] = r.client]
           /\ rooms' = r.rooms
        /\ budget' = IF fails THEN budget - 1 ELSE budget
        /\ UNCHANGED <<fresh, unread>>

\* onicecandidate: the manager dispatches 'ice-candidate'; the page's listener,
\* when it is registered, calls sendIceCandidate.
IceCandidate(c) ==
    \E remotePeerId \in DOMAIN clients[c].peerConnections :
        /\ clients[c].peerConnections[remotePeerId].ice > 0
        /\ clients' = [clients EXCEPT ![c].peerConnections[remotePeerId].ice = @ - 1]
        /\ rooms' = IF clients[c].listener
                    THEN Called(sendIceCandidate(rooms,
                             [roomId |-> PageRoom, fromPeerId |-> c,
                              toPeerId |-> remotePeerId, candidate |-> Json]))
                    ELSE rooms
        /\ UNCHANGED <<fresh, budget, unread>>

\* One refetch of offersQuery, and the handleOffers effect when data changed.
\* The query keeps the old data object when the new result is deeply equal to
\* it, so the effect, which depends on offersQuery.data, runs again only for a
\* result that differs.
PollOffers(c) ==
    /\ Polling(c)
    /\ LET r == getOffers(rooms, [roomId |-> PageRoom, peerId |-> c])
           polled == clients[c]
       IN
       IF r.threw # "none" \/ r.output.offers = clients[c].offersData
       THEN /\ clients' = [clients EXCEPT ![c] = polled]
            /\ UNCHANGED <<rooms, budget>>
       ELSE \E failing \in Failing(Senders(r.output.offers)) :
               LET h == handleOffers(c, [polled EXCEPT !.offersData = r.output.offers],
                                     rooms, r.output.offers, failing)
               IN  /\ clients' = [clients EXCEPT ![c] = h.client]
                   /\ rooms' = h.rooms
                   /\ budget' = budget - Cardinality(failing)
    /\ UNCHANGED <<fresh, unread>>

\* One refetch of answersQuery, and the handleAnswers effect when data changed.
PollAnswers(c) ==
    /\ Polling(c)
    /\ LET r == getAnswers(rooms, [roomId |-> PageRoom, peerId |-> c])
           polled == clients[c]
       IN
       IF r.threw # "none" \/ r.output.answers = clients[c].answersData
       THEN /\ clients' = [clients EXCEPT ![c] = polled]
            /\ UNCHANGED budget
       ELSE \E failing \in Failing(Senders(r.output.answers)) :
               /\ clients' = [clients EXCEPT ![c] =
                     handleAnswers([polled EXCEPT !.answersData = r.output.answers],
                                   r.output.answers, failing)]
               /\ budget' = budget - Cardinality(failing)
    /\ UNCHANGED <<rooms, fresh, unread>>

\* One refetch of iceCandidatesQuery, and the handleIceCandidates effect.
\* Every batch differs from the one before it, so non-empty data is new data.
PollIceCandidates(c) ==
    /\ Polling(c)
    /\ LET r == getIceCandidates(rooms, [roomId |-> PageRoom, peerId |-> c])
           polled == clients[c]
       IN
       /\ rooms' = r.rooms
       /\ IF r.threw # "none"
          THEN /\ clients' = [clients EXCEPT ![c] = polled]
               /\ UNCHANGED budget
          ELSE \E failing \in Failing(Senders(r.output.iceCandidates)) :
                  /\ clients' = [clients EXCEPT ![c] =
                        handleIceCandidates(polled, r.output.iceCandidates, failing)]
                  /\ budget' = budget - Cardinality(failing)
    /\ UNCHANGED <<fresh, unread>>

\* Leave, or any navigation away: React unmounts the page, which stops the
\* queries and runs the cleanup the effect returned, when it returned one.
Unmount(c) ==
    /\ clients[c].mounted
    /\ clients' = [clients EXCEPT ![c] =
          IF EffectReturnsCleanup
          THEN [cleanup(@) EXCEPT !.mounted = FALSE]
          ELSE [@ EXCEPT !.mounted = FALSE]]
    /\ UNCHANGED <<rooms, fresh, budget, unread>>

InitClients == InitPages({PageRoom}, MaxFailures, ClientIds)

\* Three pages that are rendered, get their media, join and negotiate.
NextClients ==
    \/ CreateRoom
    \/ \E c \in ClientIds :
          \/ Mount(c)
          \/ MediaGranted(c)
          \/ Join(c)
          \/ OfferCreated(c)
          \/ PollOffers(c)
          \/ PollAnswers(c)

SpecClients == InitClients /\ [][NextClients]_vars

\* The pages of a session from its first render to its last step.
SessionIds == {"A", "B"}

\* Two pages, every step of each: denied media, candidates, leaving.
NextSession ==
    \/ CreateRoom
    \/ \E c \in SessionIds :
          \/ Mount(c)
          \/ MediaGranted(c)
          \/ MediaDenied(c)
          \/ Join(c)
          \/ OfferCreated(c)
          \/ IceCandidate(c)
          \/ PollOffers(c)
          \/ PollAnswers(c)
          \/ PollIceCandidates(c)
          \/ Unmount(c)

SpecSession == InitClients /\ [][NextSession]_vars

\* The pages when no call into the transport throws.
InitProgress == InitPages({PageRoom}, 0, ClientIds)

\* The scheduling of the rendered pages: the promise createOffer awaits
\* settles and the refetch intervals of offersQuery and answersQuery fire
\* again and again, so while some such step would change the state, one of
\* them is taken.  Nothing is required of a render, of getUserMedia or of
\* joinRoom.
PageStep ==
    \E c \in ClientIds : OfferCreated(c) \/ PollOffers(c) \/ PollAnswers(c)

FairPages == WF_vars(PageStep)

SpecProgress == InitProgress /\ [][NextClients]_vars /\ FairPages

----------------------------------------------------------------------------
(* What the claims read off a registry and off a result *)

Elements(seq) == {seq[i] : i \in 1..Len(seq)}

\* The peers that have a mailbox in a room of registry rs.
Mailboxes(rs, roomId) == KeySet(rs[roomId].participants)

\* The entries of a read's result that name `from` as their sender.
EntriesFrom(entries, from) == SelectSeq(entries, LAMBDA e : e.fromPeerId = from)

----------------------------------------------------------------------------
(* C1: in every reachable state, for every registered room R and every peer *)
(* id p, joinRoom(R, p) returns, and the peers it returns are exactly the   *)
(* peers that then have a mailbox in R other than p, each listed once; p is *)
(* never among them.                                                        *)

C1_JoinReturnsOthers ==
    \A roomId \in DOMAIN rooms, peerId \in PeerIds :
        LET r == joinRoom(rooms, JoinInput(roomId, peerId)) IN
        /\ r.threw = "none"
        /\ Elements(r.output.peers) = Mailboxes(r.rooms, roomId) \ {peerId}
        /\ Len(r.output.peers) = Cardinality(Elements(r.output.peers))
        /\ peerId \notin Elements(r.output.peers)

\* Two peers have joined a room and a send has gone through: a join by either
\* has another peer to return.
C1_Witness ==
    \E roomId \in DOMAIN rooms :
        /\ Cardinality(Mailboxes(rooms, roomId)) = 2
        /\ budget < MaxSends

----------------------------------------------------------------------------
(* C2: in every reachable state, when peer A has sent candidates to B since *)
(* the last getIceCandidates(R, B) (three of them, or any other number),    *)
(* getIceCandidates(R, B) returns exactly one entry for A and it holds      *)
(* exactly those candidates in the order they were sent; and a second       *)
(* getIceCandidates(R, B) issued right after the first returns no entry for *)
(* any sender.                                                              *)

C2_BatchThenEmpty ==
    \A roomId \in DOMAIN rooms, B \in PeerIds :
        LET first == getIceCandidates(rooms, JoinInput(roomId, B))
            second == getIceCandidates(first.rooms, JoinInput(roomId, B))
        IN
        /\ first.threw = "none"
        /\ second.threw = "none"
        /\ \A A \in PeerIds \ {B} :
              /\ <<roomId, A, B>> \in DOMAIN unread =>
                    EntriesFrom(first.output.iceCandidates, A) =
                        <<[fromPeerId |-> A, candidates |-> unread[<<roomId, A, B>>]]>>
              /\ EntriesFrom(second.output.iceCandidates, A) = <<>>

\* Three candidates, not all equal, sent from A to B and not read yet.
C2_Witness ==
    \E roomId \in DOMAIN rooms :
        /\ <<roomId, "A", "B">> \in DOMAIN unread
        /\ Len(unread[<<roomId, "A", "B">>]) = 3
        /\ Elements(unread[<<roomId, "A", "B">>]) = Payloads

----------------------------------------------------------------------------
(* C3: no candidate is lost or duplicated at the coordinator.  The claim    *)
(* is about the whole history of calls; it is stated here call by call,     *)
(* which is the same by induction on the calls: in every reachable state,   *)
(* a getIceCandidates(R, B) returns for sender A a batch that, followed by  *)
(* what it leaves queued for (A, B), is what was queued for (A, B) before   *)
(* it; a successful sendIceCandidate(R, A, B, c) appends c to what is       *)
(* queued for (A, B); and each leaves the queue of every other pair as it   *)
(* was.                                                                     *)

\* The candidates queued from `from` to `to` in a room of registry rs.
Queued(rs, roomId, from, to) ==
    IF HasOwn(rs[roomId].participants, from)
       /\ to \in DOMAIN GetOwn(rs[roomId].participants, from).iceCandidates
    THEN GetOwn(rs[roomId].participants, from).iceCandidates[to]
    ELSE <<>>

\* The batch a getIceCandidates result holds for sender `from`.
BatchFrom(iceCandidates, from) ==
    LET hits == EntriesFrom(iceCandidates, from)
    IN  IF hits = <<>> THEN <<>> ELSE hits[1].candidates

C3_NoCandidateLostOrDuplicated ==
    \A roomId \in DOMAIN rooms, A \in PeerIds, B \in PeerIds :
        /\ LET read == getIceCandidates(rooms, JoinInput(roomId, B)) IN
           /\ read.threw = "none"
           /\ Len(EntriesFrom(read.output.iceCandidates, A)) <= 1
           /\ BatchFrom(read.output.iceCandidates, A)
                \o Queued(read.rooms, roomId, A, B) = Queued(rooms, roomId, A, B)
           /\ \A C \in PeerIds \ {B} :
                 Queued(read.rooms, roomId, A, C) = Queued(rooms, roomId, A, C)
        /\ \A c \in Payloads :
              LET send == sendIceCandidate(rooms, CandidateInput(roomId, A, B, c)) IN
              send.threw = "none" =>
                 \A X \in PeerIds, Y \in PeerIds :
                    Queued(send.rooms, roomId, X, Y) =
                        IF X = A /\ Y = B
                        THEN Append(Queued(rooms, roomId, X, Y), c)
                        ELSE Queued(rooms, roomId, X, Y)

----------------------------------------------------------------------------
(* C4: in every reachable state, for every peer A with a mailbox in R,      *)
(* every other peer id B and all payloads O1 and O2: after sendOffer(R, A,  *)
(* B, O1) and then sendOffer(R, A, B, O2), getOffers(R, B) returns exactly  *)
(* one entry from A, and its offer is O2; the same for sendAnswer and       *)
(* getAnswers.                                                              *)

C4_LastWriteWins ==
    \A roomId \in DOMAIN rooms :
      \A A \in Mailboxes(rooms, roomId) :
        \A B \in PeerIds \ {A}, O1 \in Payloads, O2 \in Payloads :
          /\ LET s1 == sendOffer(rooms, OfferInput(roomId, A, B, O1))
                 s2 == sendOffer(s1.rooms, OfferInput(roomId, A, B, O2))
                 read == getOffers(s2.rooms, JoinInput(roomId, B))
             IN  /\ s1.threw = "none" /\ s2.threw = "none" /\ read.threw = "none"
                 /\ EntriesFrom(read.output.offers, A) =
                        <<[fromPeerId |-> A, offer |-> O2]>>
          /\ LET s1 == sendAnswer(rooms, AnswerInput(roomId, A, B, O1))
                 s2 == sendAnswer(s1.rooms, AnswerInput(roomId, A, B, O2))
                 read == getAnswers(s2.rooms, JoinInput(roomId, B))
             IN  /\ s1.threw = "none" /\ s2.threw = "none" /\ read.threw = "none"
                 /\ EntriesFrom(read.output.answers, A) =
                        <<[fromPeerId |-> A, answer |-> O2]>>

----------------------------------------------------------------------------
(* C5: two consecutive getOffers(R, B) calls with no sendOffer addressed to *)
(* B in between return the same entries, and likewise for getAnswers.       *)
(* Stated step by step, which is the same by induction on the calls in      *)
(* between (the first getOffers included): a call that is not a successful  *)
(* sendOffer to B in R leaves what getOffers(R, B) returns as it was, and a *)
(* call that is not a successful sendAnswer to B in R leaves what           *)
(* getAnswers(R, B) returns as it was.                                      *)

\* The step is a sendOffer to peer `to` in the room that returned.
IsSendOfferTo(roomId, to) ==
    \E from \in PeerIds, offer \in Payloads :
        LET r == sendOffer(rooms, OfferInput(roomId, from, to, offer)) IN
        r.threw = "none" /\ rooms' = r.rooms /\ budget' = budget - 1

\* The step is a sendAnswer to peer `to` in the room that returned.
IsSendAnswerTo(roomId, to) ==
    \E from \in PeerIds, answer \in Payloads :
        LET r == sendAnswer(rooms, AnswerInput(roomId, from, to, answer)) IN
        r.threw = "none" /\ rooms' = r.rooms /\ budget' = budget - 1

C5_ReadsPersist ==
    [][\A roomId \in DOMAIN rooms, B \in PeerIds :
          /\ ~IsSendOfferTo(roomId, B) =>
                Elements(getOffers(rooms', JoinInput(roomId, B)).output.offers)
                  = Elements(getOffers(rooms, JoinInput(roomId, B)).output.offers)
          /\ ~IsSendAnswerTo(roomId, B) =>
                Elements(getAnswers(rooms', JoinInput(roomId, B)).output.answers)
                  = Elements(getAnswers(rooms, JoinInput(roomId, B)).output.answers)
      ]_vars

----------------------------------------------------------------------------
(* C6: in every reachable state no peer has two mailboxes in a room, and    *)
(* for every peer p that has a mailbox in room R, joinRoom(R, p) returns    *)
(* and leaves the whole registry as it was: p's offers, answers and         *)
(* candidate queues, and the participants of R.                             *)

C6_RejoinChangesNothing ==
    \A roomId \in DOMAIN rooms :
        /\ Len(rooms[roomId].participants) = Cardinality(Mailboxes(rooms, roomId))
        /\ \A peerId \in Mailboxes(rooms, roomId) :
              LET r == joinRoom(rooms, JoinInput(roomId, peerId)) IN
              r.threw = "none" /\ r.rooms = rooms

\* A peer whose mailbox holds an offer and a queued candidate, in a room with
\* a second peer: a mailbox a repeated join could reset.
C6_Witness ==
    \E roomId \in DOMAIN rooms :
        /\ Cardinality(Mailboxes(rooms, roomId)) = 2
        /\ \E peerId \in Mailboxes(rooms, roomId) :
              LET data == GetOwn(rooms[roomId].participants, peerId) IN
              /\ DOMAIN data.offers # {}
              /\ \E to \in DOMAIN data.iceCandidates : data.iceCandidates[to] # <<>>

----------------------------------------------------------------------------
(* C7: in every reachable state, for every room id that createRoom has not  *)
(* returned, each of joinRoom, sendOffer, sendAnswer, sendIceCandidate,     *)
(* getOffers, getAnswers and getIceCandidates throws "room not found" for   *)
(* every other input, and leaves the registry as it was.                    *)

RoomNotFound(r) == r.threw = "RoomNotFound" /\ r.rooms = rooms

C7_UnknownRoomThrows ==
    \A roomId \in RoomIds \ DOMAIN rooms :
        /\ \A peerId \in PeerIds :
              /\ RoomNotFound(joinRoom(rooms, JoinInput(roomId, peerId)))
              /\ RoomNotFound(getOffers(rooms, JoinInput(roomId, peerId)))
              /\ RoomNotFound(getAnswers(rooms, JoinInput(roomId, peerId)))
              /\ RoomNotFound(getIceCandidates(rooms, JoinInput(roomId, peerId)))
        /\ \A from \in PeerIds, to \in PeerIds, payload \in Payloads :
              /\ RoomNotFound(sendOffer(rooms, OfferInput(roomId, from, to, payload)))
              /\ RoomNotFound(sendAnswer(rooms, AnswerInput(roomId, from, to, payload)))
              /\ RoomNotFound(sendIceCandidate(rooms,
                                  CandidateInput(roomId, from, to, payload)))

\* One room is registered and holds a peer that has sent something, while
\* another id has never been returned by createRoom.
C7_Witness ==
    /\ RoomIds \ DOMAIN rooms # {}
    /\ \E roomId \in DOMAIN rooms : Mailboxes(rooms, roomId) # {}
    /\ budget < MaxSends

----------------------------------------------------------------------------
(* C8: in every reachable state, for every registered room R and every peer *)
(* id that has no mailbox in R, each of sendOffer, sendAnswer and           *)
(* sendIceCandidate from that id throws "peer not found" for every target   *)
(* and payload, and leaves the registry as it was.                          *)

PeerNotFound(r) == r.threw = "PeerNotFound" /\ r.rooms = rooms

C8_SendBeforeJoinThrows ==
    \A roomId \in DOMAIN rooms :
      \A from \in PeerIds \ Mailboxes(rooms, roomId) :
        \A to \in PeerIds, payload \in Payloads :
          /\ PeerNotFound(sendOffer(rooms, OfferInput(roomId, from, to, payload)))
          /\ PeerNotFound(sendAnswer(rooms, AnswerInput(roomId, from, to, payload)))
          /\ PeerNotFound(sendIceCandidate(rooms,
                              CandidateInput(roomId, from, to, payload)))

----------------------------------------------------------------------------
(* C9: in every reachable state, for every procedure that takes a roomId    *)
(* and every input naming room R1: the call leaves the set of rooms and     *)
(* every room other than R1 as they were, and what it throws, what it       *)
(* returns and what it leaves in R1 are what the same call throws, returns  *)
(* and leaves on a registry that holds R1 alone.                            *)

\* The registry with every room but roomId removed.
Alone(roomId) == [id \in DOMAIN rooms \cap {roomId} |-> rooms[id]]

Isolated(roomId, r, alone) ==
    /\ DOMAIN r.rooms = DOMAIN rooms
    /\ \A other \in DOMAIN rooms \ {roomId} : r.rooms[other] = rooms[other]
    /\ r.threw = alone.threw
    /\ r.output = alone.output
    /\ roomId \in DOMAIN rooms => r.rooms[roomId] = alone.rooms[roomId]

C9_RoomsAreIsolated ==
    \A R1 \in RoomIds :
        /\ \A peerId \in PeerIds :
              LET input == JoinInput(R1, peerId) IN
              /\ Isolated(R1, joinRoom(rooms, input), joinRoom(Alone(R1), input))
              /\ Isolated(R1, getOffers(rooms, input), getOffers(Alone(R1), input))
              /\ Isolated(R1, getAnswers(rooms, input), getAnswers(Alone(R1), input))
              /\ Isolated(R1, getIceCandidates(rooms, input),
                          getIceCandidates(Alone(R1), input))
        /\ \A from \in PeerIds, to \in PeerIds, payload \in Payloads :
              /\ LET input == OfferInput(R1, from, to, payload) IN
                 Isolated(R1, sendOffer(rooms, input), sendOffer(Alone(R1), input))
              /\ LET input == AnswerInput(R1, from, to, payload) IN
                 Isolated(R1, sendAnswer(rooms, input), sendAnswer(Alone(R1), input))
              /\ LET input == CandidateInput(R1, from, to, payload) IN
                 Isolated(R1, sendIceCandidate(rooms, input),
                          sendIceCandidate(Alone(R1), input))

\* Both rooms are registered, the same two peer ids have a mailbox in each,
\* and the two rooms hold different mailboxes.
C9_Witness ==
    /\ DOMAIN rooms = RoomIds
    /\ \A roomId \in RoomIds : Mailboxes(rooms, roomId) = {"A", "B"}
    /\ budget < MaxRoomSends
    /\ \E peerId \in {"A", "B"} :
          GetOwn(rooms["r1"].participants, peerId)
            # GetOwn(rooms["r2"].participants, peerId)

----------------------------------------------------------------------------
(* C10: in every reachable state, for every peer A with a mailbox in room   *)
(* R, every peer id B without one and every payload: the send of each kind  *)
(* from A to B returns and gives no peer a mailbox, and the matching read   *)
(* by B then returns the payload in its entry from A (for a candidate, as   *)
(* the last of the batch), both when B reads at once and when B joins       *)
(* first.                                                                   *)

\* B's read of the registry rs returns `payload` from A.
Reaches(kind, rs, roomId, A, B, payload) ==
    LET input == JoinInput(roomId, B) IN
    CASE kind = "offer" ->
            LET read == getOffers(rs, input) IN
            /\ read.threw = "none"
            /\ [fromPeerId |-> A, offer |-> payload] \in Elements(read.output.offers)
      [] kind = "answer" ->
            LET read == getAnswers(rs, input) IN
            /\ read.threw = "none"
            /\ [fromPeerId |-> A, answer |-> payload] \in Elements(read.output.answers)
      [] kind = "candidate" ->
            LET read == getIceCandidates(rs, input) IN
            /\ read.threw = "none"
            /\ LET batch == BatchFrom(read.output.iceCandidates, A) IN
               batch # <<>> /\ batch[Len(batch)] = payload

\* The send s returned, created no mailbox, and reaches B now and after B joins.
SentToFuturePeer(kind, s, roomId, A, B, payload) ==
    /\ s.threw = "none"
    /\ Mailboxes(s.rooms, roomId) = Mailboxes(rooms, roomId)
    /\ Reaches(kind, s.rooms, roomId, A, B, payload)
    /\ LET joined == joinRoom(s.rooms, JoinInput(roomId, B)) IN
       /\ joined.threw = "none"
       /\ Reaches(kind, joined.rooms, roomId, A, B, payload)

C10_SendToFuturePeer ==
    \A roomId \in DOMAIN rooms :
      \A A \in Mailboxes(rooms, roomId) :
        \A B \in PeerIds \ Mailboxes(rooms, roomId), payload \in Payloads :
          /\ SentToFuturePeer("offer",
                 sendOffer(rooms, OfferInput(roomId, A, B, payload)),
                 roomId, A, B, payload)
          /\ SentToFuturePeer("answer",
                 sendAnswer(rooms, AnswerInput(roomId, A, B, payload)),
                 roomId, A, B, payload)
          /\ SentToFuturePeer("candidate",
                 sendIceCandidate(rooms, CandidateInput(roomId, A, B, payload)),
                 roomId, A, B, payload)

----------------------------------------------------------------------------
(* C11: the end-to-end scenario.  In every reachable state, for every room  *)
(* that has no participant yet, all distinct peer ids A and B and all       *)
(* payloads o1, a1, c1, c2: join as A returns an empty roster and the later *)
(* join as B returns exactly [A]; after A sends offer o1 to B, getOffers(B) *)
(* returns [{A, o1}]; after B sends answer a1 to A, getAnswers(A) returns   *)
(* [{B, a1}]; after A sends candidates c1 and c2 to B, getIceCandidates(B)  *)
(* returns [{A, [c1, c2]}]; and a second getIceCandidates(B) returns [].    *)

C11_EndToEnd ==
    \A roomId \in DOMAIN rooms :
      rooms[roomId].participants = <<>> =>
        \A A \in PeerIds :
          \A B \in PeerIds \ {A}, o1 \in Payloads, a1 \in Payloads,
             c1 \in Payloads, c2 \in Payloads :
            LET j1 == joinRoom(rooms, JoinInput(roomId, A))
                j2 == joinRoom(j1.rooms, JoinInput(roomId, B))
                s1 == sendOffer(j2.rooms, OfferInput(roomId, A, B, o1))
                g1 == getOffers(s1.rooms, JoinInput(roomId, B))
                s2 == sendAnswer(g1.rooms, AnswerInput(roomId, B, A, a1))
                g2 == getAnswers(s2.rooms, JoinInput(roomId, A))
                s3 == sendIceCandidate(g2.rooms, CandidateInput(roomId, A, B, c1))
                s4 == sendIceCandidate(s3.rooms, CandidateInput(roomId, A, B, c2))
                g3 == getIceCandidates(s4.rooms, JoinInput(roomId, B))
                g4 == getIceCandidates(g3.rooms, JoinInput(roomId, B))
            IN  /\ j1.threw = "none" /\ j1.output.peers = <<>>
                /\ j2.threw = "none" /\ j2.output.peers = <<A>>
                /\ s1.threw = "none"
                /\ g1.threw = "none"
                /\ g1.output.offers = <<[fromPeerId |-> A, offer |-> o1]>>
                /\ s2.threw = "none"
                /\ g2.threw = "none"
                /\ g2.output.answers = <<[fromPeerId |-> B, answer |-> a1]>>
                /\ s3.threw = "none" /\ s4.threw = "none"
                /\ g3.threw = "none"
                /\ g3.output.iceCandidates =
                       <<[fromPeerId |-> A, candidates |-> <<c1, c2>>]>>
                /\ g4.threw = "none"
                /\ g4.output.iceCandidates = <<>>

----------------------------------------------------------------------------
(* C12: in every reachable state, a page that has been rendered and has     *)
(* left the room holds no local media, no peer connection and no            *)
(* ice-candidate listener, and does not poll.                               *)

C12_TeardownReleases ==
    \A c \in ClientIds :
        clients[c].pc # "idle" /\ ~clients[c].mounted =>
            /\ ~clients[c].localStream
            /\ clients[c].peerConnections = <<>>
            /\ ~clients[c].listener
            /\ ~Polling(c)

----------------------------------------------------------------------------
(* C13: in every reachable state, a page that polls the coordinator has     *)
(* acquired its local media, a page has a mailbox or an offer under way     *)
(* only when it has acquired its local media, and a page whose media was    *)
(* denied has no mailbox in any room and no offer under way.                *)

C13_MediaBeforeSignaling ==
    \A c \in ClientIds :
        /\ Polling(c) => clients[c].localStream
        /\ ~clients[c].localStream =>
              /\ clients[c].pending = {}
              /\ \A roomId \in DOMAIN rooms : c \notin Mailboxes(rooms, roomId)
        /\ clients[c].pc = "denied" => ~clients[c].localStream

----------------------------------------------------------------------------
(* C14: in every reachable state, the peers a page has called createOffer   *)
(* for are exactly the roster its joinRoom returned (none before it         *)
(* joined), the offers it has stored at the coordinator are addressed to    *)
(* peers of that roster, no two pages have offered to each other, and in    *)
(* the room no earlier joiner has stored an offer for a later joiner.       *)

\* The peers page c has called createOffer for.
OfferedTo(c) ==
    {p \in DOMAIN clients[c].peerConnections : clients[c].peerConnections[p].offered}

C14_OffersToRosterOnly ==
    /\ \A c \in ClientIds :
          /\ OfferedTo(c) = clients[c].roster
          /\ c \notin clients[c].roster
          /\ clients[c].pending \subseteq clients[c].roster
          /\ clients[c].pc # "joined" => clients[c].roster = {}
          /\ clients[c].pc = "joining" /\ PageRoom \in DOMAIN rooms =>
                LET r == initWebRTC(c, clients[c], rooms) IN
                r.client.roster =
                    Elements(joinRoom(rooms, JoinInput(PageRoom, c)).output.peers)
          /\ \A d \in ClientIds \ {c} : ~(d \in OfferedTo(c) /\ c \in OfferedTo(d))
    /\ \A roomId \in DOMAIN rooms :
          LET participants == rooms[roomId].participants IN
          \A i \in 1..Len(participants) :
             /\ participants[i][1] \in ClientIds
             /\ DOMAIN participants[i][2].offers
                   \subseteq clients[participants[i][1]].roster
             /\ \A j \in (i + 1)..Len(participants) :
                   participants[j][1] \notin DOMAIN participants[i][2].offers

\* The third page to join has stored an offer for each of the two before it.
C14_Witness ==
    \E c \in ClientIds :
        /\ clients[c].roster = ClientIds \ {c}
        /\ clients[c].pending = {}
        /\ PageRoom \in DOMAIN rooms
        /\ HasOwn(rooms[PageRoom].participants, c)
        /\ DOMAIN GetOwn(rooms[PageRoom].participants, c).offers = ClientIds \ {c}

----------------------------------------------------------------------------
(* C15: in every reachable state, for every page, every poll result (its    *)
(* entries from any of the other pages, in any order) and every set of      *)
(* senders whose handling throws: the effect runs to its end and the page   *)
(* keeps polling; for every sender that does not throw, the connection and  *)
(* the answer stored for it are what they are when nothing throws; for a    *)
(* sender that throws, and for every peer that is not in the result, the    *)
(* connection is as it was before (or new); the same for offers, answers    *)
(* and candidates.                                                          *)

\* The sequences without repetition over the set S.
Orders(S) ==
    {q \in UNION {[1..n -> S] : n \in 0..Cardinality(S)} :
        \A i \in DOMAIN q, j \in DOMAIN q : q[i] = q[j] => i = j}

\* The answer page c has stored for peer p in registry rs.
AnswerFor(rs, c, p) ==
    IF PageRoom \in DOMAIN rs /\ HasOwn(rs[PageRoom].participants, c)
       /\ p \in DOMAIN GetOwn(rs[PageRoom].participants, c).answers
    THEN <<GetOwn(rs[PageRoom].participants, c).answers[p]>>
    ELSE <<>>

\* The connection of `after` for peer p is the one of `before`, or a new one.
Untouched(before, after, p) ==
    /\ p \in DOMAIN before.peerConnections =>
          /\ p \in DOMAIN after.peerConnections
          /\ after.peerConnections[p] = before.peerConnections[p]
    /\ p \in DOMAIN after.peerConnections /\ p \notin DOMAIN before.peerConnections =>
          after.peerConnections[p] = NewConnection

\* The page `bad`, where the senders in `failing` threw, against the page
\* `good`, where none did, both starting from `before` on the senders `from`.
IsolatedPeers(before, good, bad, from, failing) ==
    /\ bad.mounted = before.mounted
    /\ DOMAIN bad.peerConnections = DOMAIN good.peerConnections
    /\ bad.dropped = good.dropped
    /\ \A p \in ClientIds :
          /\ p \notin failing /\ p \in DOMAIN good.peerConnections =>
                bad.peerConnections[p] = good.peerConnections[p]
          /\ p \in failing \/ p \notin from => Untouched(before, bad, p)

C15_PerPeerIsolation ==
    \A c \in ClientIds :
      \A from \in Orders(ClientIds \ {c}) :
        \A failing \in SUBSET Elements(from) :
          LET before == clients[c]
              offers == [i \in DOMAIN from |-> [fromPeerId |-> from[i], offer |-> Json]]
              answers == [i \in DOMAIN from |-> [fromPeerId |-> from[i], answer |-> Json]]
              iceCandidates == [i \in DOMAIN from |->
                                   [fromPeerId |-> from[i], candidates |-> <<Json>>]]
              goodOffers == handleOffers(c, before, rooms, offers, {})
              badOffers == handleOffers(c, before, rooms, offers, failing)
          IN  /\ IsolatedPeers(before, goodOffers.client, badOffers.client,
                               Elements(from), failing)
              /\ \A p \in ClientIds :
                    AnswerFor(badOffers.rooms, c, p) =
                        IF p \in failing THEN AnswerFor(rooms, c, p)
                        ELSE AnswerFor(goodOffers.rooms, c, p)
              /\ IsolatedPeers(before, handleAnswers(before, answers, {}),
                               handleAnswers(before, answers, failing),
                               Elements(from), failing)
              /\ IsolatedPeers(before, handleIceCandidates(before, iceCandidates, {}),
                               handleIceCandidates(before, iceCandidates, failing),
                               Elements(from), failing)

\* A page has polled the offers of two peers; handling one of them threw and
\* the other was answered.
C15_Witness ==
    \E c \in ClientIds :
        /\ Len(clients[c].offersData) = 2
        /\ budget < MaxFailures
        /\ \E p \in DOMAIN clients[c].peerConnections,
              q \in DOMAIN clients[c].peerConnections :
                /\ clients[c].peerConnections[p].offers = 0
                /\ ~clients[c].peerConnections[p].offered
                /\ clients[c].peerConnections[q].offers = 1
                /\ AnswerFor(rooms, c, q) # <<>>
                /\ AnswerFor(rooms, c, p) = <<>>

----------------------------------------------------------------------------
(* C16: in every reachable state, no page has applied the offer of a peer   *)
(* (and sent an answer for it) more than once.                              *)

C16_OfferAnsweredOnce ==
    \A c \in ClientIds :
        \A p \in DOMAIN clients[c].peerConnections :
            clients[c].peerConnections[p].offers <= 1

----------------------------------------------------------------------------
(* C17: in every reachable state, no page has thrown away a candidate it    *)
(* received from getIceCandidates because it had no connection for the      *)
(* sender.                                                                  *)

C17_NoCandidateDiscarded ==
    \A c \in ClientIds : clients[c].dropped = {}

----------------------------------------------------------------------------
(* C18: in every reachable state, a page has applied an answer of peer X    *)
(* only to a connection on which it called createOffer for X, and has       *)
(* applied no more than one answer to any connection.                       *)

C18_AnswerAppliedOnce ==
    \A c \in ClientIds :
        \A p \in DOMAIN clients[c].peerConnections :
            /\ clients[c].peerConnections[p].answers <= 1
            /\ clients[c].peerConnections[p].answers > 0 =>
                  clients[c].peerConnections[p].offered

----------------------------------------------------------------------------
(* C19: in every reachable state, a sendOffer, sendAnswer or                *)
(* sendIceCandidate(R, from, to, payload) that returns changes only the     *)
(* entry of its kind keyed `to` in from's mailbox in R: every other room,   *)
(* the participants of R and their order, the mailbox of every other peer,  *)
(* from's entries of the other two kinds and from's entries of that kind    *)
(* for every other target are as they were.                                 *)

\* The send s into `slot` of from's mailbox changed nothing but the entry `to`.
SendFrame(s, roomId, from, to, slot) ==
    s.threw = "none" =>
      LET old == rooms[roomId].participants
          new == s.rooms[roomId].participants
      IN  /\ DOMAIN s.rooms = DOMAIN rooms
          /\ \A other \in DOMAIN rooms \ {roomId} : s.rooms[other] = rooms[other]
          /\ ObjectKeys(new) = ObjectKeys(old)
          /\ HasOwn(old, from)
          /\ \A q \in KeySet(old) \ {from} : GetOwn(new, q) = GetOwn(old, q)
          /\ \A kind \in {"offers", "answers", "iceCandidates"} :
                LET before == GetOwn(old, from)[kind]
                    after == GetOwn(new, from)[kind]
                IN  IF kind = slot
                    THEN /\ DOMAIN after = DOMAIN before \cup {to}
                         /\ \A t \in DOMAIN before \ {to} : after[t] = before[t]
                    ELSE after = before

C19_SendFrame ==
    \A roomId \in DOMAIN rooms :
      \A from \in PeerIds, to \in PeerIds, payload \in Payloads :
        /\ SendFrame(sendOffer(rooms, OfferInput(roomId, from, to, payload)),
                     roomId, from, to, "offers")
        /\ SendFrame(sendAnswer(rooms, AnswerInput(roomId, from, to, payload)),
                     roomId, from, to, "answers")
        /\ SendFrame(sendIceCandidate(rooms,
                         CandidateInput(roomId, from, to, payload)),
                     roomId, from, to, "iceCandidates")

\* Two peers have a mailbox and each has sent something: a send by either has
\* entries of its own and a second mailbox that it could disturb.
C19_Witness ==
    \E roomId \in DOMAIN rooms :
        /\ Cardinality(Mailboxes(rooms, roomId)) = 2
        /\ \A q \in Mailboxes(rooms, roomId) :
              GetOwn(rooms[roomId].participants, q) # EmptyMailbox

----------------------------------------------------------------------------
(* C20: in every reachable state, for every room id and peer id p:          *)
(* getOffers and getAnswers leave the whole registry as it was, and         *)
(* getIceCandidates(R, p) leaves every other room, the participants of R    *)
(* and their order, all offers, all answers and every candidate queue       *)
(* addressed to a peer other than p as they were, and leaves no candidate   *)
(* queued for p by another peer; no read gives p a mailbox.                 *)

C20_ReadFrame ==
    \A roomId \in RoomIds, p \in PeerIds :
        /\ getOffers(rooms, JoinInput(roomId, p)).rooms = rooms
        /\ getAnswers(rooms, JoinInput(roomId, p)).rooms = rooms
        /\ LET g == getIceCandidates(rooms, JoinInput(roomId, p)) IN
           /\ DOMAIN g.rooms = DOMAIN rooms
           /\ \A other \in DOMAIN rooms \ {roomId} : g.rooms[other] = rooms[other]
           /\ roomId \in DOMAIN rooms =>
                LET old == rooms[roomId].participants
                    new == g.rooms[roomId].participants
                IN  /\ ObjectKeys(new) = ObjectKeys(old)
                    /\ \A q \in KeySet(old) :
                          LET before == GetOwn(old, q)
                              after == GetOwn(new, q)
                          IN  /\ after.offers = before.offers
                              /\ after.answers = before.answers
                              /\ \A t \in PeerIds \ {p} :
                                    /\ t \in DOMAIN after.iceCandidates
                                          <=> t \in DOMAIN before.iceCandidates
                                    /\ t \in DOMAIN before.iceCandidates =>
                                          after.iceCandidates[t]
                                            = before.iceCandidates[t]
                              /\ q # p => Queued(g.rooms, roomId, q, p) = <<>>

\* A sender holds a candidate queued for one peer and a candidate queued for
\* another: a drain by the first could disturb the queue of the second.
C20_Witness ==
    \E roomId \in DOMAIN rooms, q \in PeerIds, p \in PeerIds :
        /\ q # p
        /\ Queued(rooms, roomId, q, p) # <<>>
        /\ \E t \in PeerIds \ {p, q} : Queued(rooms, roomId, q, t) # <<>>

----------------------------------------------------------------------------
(* C21: rooms and mailboxes are never removed.  In every step of every      *)
(* behaviour, a room of the registry before the step is a room of the       *)
(* registry after it, and a peer that has a mailbox in that room before the *)
(* step has one after it.                                                   *)

C21_NothingRemoved ==
    [][/\ DOMAIN rooms \subseteq DOMAIN rooms'
       /\ \A roomId \in DOMAIN rooms :
             Mailboxes(rooms, roomId) \subseteq Mailboxes(rooms', roomId)
      ]_vars

\* Both rooms exist and one of them holds two mailboxes, one with something
\* stored in it: the room created second and the peer that joined second
\* came after something that could have been removed.
C21_Witness ==
    /\ DOMAIN rooms = RoomIds
    /\ \E roomId \in RoomIds :
          /\ Cardinality(Mailboxes(rooms, roomId)) = 2
          /\ \E q \in Mailboxes(rooms, roomId) :
                GetOwn(rooms[roomId].participants, q) # EmptyMailbox

----------------------------------------------------------------------------
(* C22: in every reachable state, for every id uuidv4() may still return,   *)
(* createRoom returns, its result is that id, which is the id of no room    *)
(* of the registry before the call, the registry after the call holds that  *)
(* room with no participant, and every room of the registry before the call *)
(* is in the registry after it exactly as it was.                           *)

C22_CreateRoom ==
    \A roomId \in fresh :
        LET r == createRoom(rooms, roomId) IN
        /\ r.threw = "none"
        /\ r.output.roomId = roomId
        /\ roomId \notin DOMAIN rooms
        /\ DOMAIN r.rooms = DOMAIN rooms \cup {roomId}
        /\ r.rooms[roomId] = [id |-> roomId, participants |-> <<>>]
        /\ \A other \in DOMAIN rooms : r.rooms[other] = rooms[other]

\* One room exists, with a mailbox that holds something, and uuidv4() has
\* another id to return: a createRoom that has a room it could disturb.
C22_Witness ==
    /\ fresh # {}
    /\ \E roomId \in DOMAIN rooms, q \in PeerIds :
          /\ HasOwn(rooms[roomId].participants, q)
          /\ GetOwn(rooms[roomId].participants, q) # EmptyMailbox

----------------------------------------------------------------------------
(* C23: negotiation progress.  When pages a and b both hold their media and *)
(* have joined the room, b after a (joinRoom returned a to b), and no call  *)
(* into the transport throws, then eventually a has applied b's offer and   *)
(* stored an answer for b, and eventually b has applied a's answer.         *)

\* Both pages hold their media and have joined, b when a had its mailbox.
JoinedAfter(a, b) ==
    /\ clients[a].pc = "joined" /\ clients[a].localStream
    /\ clients[b].pc = "joined" /\ clients[b].localStream
    /\ a \in clients[b].roster

\* Page a has applied an offer of b and the registry holds a's answer for b.
Answered(a, b) ==
    /\ b \in DOMAIN clients[a].peerConnections
    /\ clients[a].peerConnections[b].offers > 0
    /\ AnswerFor(rooms, a, b) = <<Json>>

\* Page b has applied an answer of a.
AnswerApplied(b, a) ==
    /\ a \in DOMAIN clients[b].peerConnections
    /\ clients[b].peerConnections[a].answers > 0

C23_NegotiationProgress ==
    \A a \in ClientIds : \A b \in ClientIds \ {a} :
        JoinedAfter(a, b) ~> (Answered(a, b) /\ AnswerApplied(b, a))

\* A pair that joined one after the other and has finished its negotiation,
\* while a third page that joined last has finished it with both.
C23_Witness ==
    \E a \in ClientIds : \E b \in ClientIds \ {a} : \E c \in ClientIds \ {a, b} :
        /\ JoinedAfter(a, b) /\ Answered(a, b) /\ AnswerApplied(b, a)
        /\ JoinedAfter(a, c) /\ Answered(a, c) /\ AnswerApplied(c, a)
        /\ JoinedAfter(b, c) /\ Answered(b, c) /\ AnswerApplied(c, b)

====
